---- MODULE Spec2Model ----
(***************************************************************************)
(* A model of rongo's referential-integrity layer: the filter resolver     *)
(* (normalizeFilterQuery), the insertion resolver (normalizeInsertionDoc,  *)
(* Collection.insert / replaceOne / findOneAndReplace) and the cascading   *)
(* delete (Collection.delete).                                             *)
(***************************************************************************)
EXTENDS Integers, Sequences, FiniteSets, TLC

VARIABLES
    graph,      \* Rongo.graph: collection name -> configuration
    store,      \* the database: collection name -> set of stored documents
    nextKey,    \* the next identity the store assigns to an inserted document
    flt,        \* the outcome of the last normalizeFilterQuery call
    ins,        \* the outcome of the last insert / replace call
    del,        \* the Collection.delete call in flight, or its outcome
    handles,    \* the names of the Collection handles created so far
    call        \* the call followed step by step: suspended, or its outcome

vars == <<graph, store, nextKey, flt, ins, del, handles, call>>

-----------------------------------------------------------------------------
(* Bounds *)

MaxWrites == 4      \* store writes of one call among which one may be made to fail

-----------------------------------------------------------------------------
(* JSON-like values. Every value is a tagged record:                       *)
(*   Key(n) a number (also used for document keys), Str(s) a string,       *)
(*   Null, Undef (JavaScript's undefined: an absent property),             *)
(*   Map(m) a plain object, m a function from property names to values,    *)
(*   Arr(s) an array.                                                      *)

Key(n) == [t |-> "key", v |-> n]
Str(s) == [t |-> "str", v |-> s]
Null == [t |-> "null"]
Undef == [t |-> "undef"]
Map(m) == [t |-> "map", m |-> m]
Arr(s) == [t |-> "seq", s |-> s]

EmptyObj == [f \in {} |-> Null]

isPlainObject(value) == value.t = "map"

isArray(value) == value.t = "seq"

\* value.prop for a property name: undefined when absent (or when value is no object)
Prop(value, f) ==
    IF isPlainObject(value) /\ f \in DOMAIN value.m THEN value.m[f] ELSE Undef

\* obj with obj[f] = v assigned
Assign(obj, f, v) ==
    Map([g \in (DOMAIN obj.m) \cup {f} |-> IF g = f THEN v ELSE obj.m[g]])

\* obj without the properties in fs (object rest destructuring, $unset)
Omit(obj, fs) == Map([g \in (DOMAIN obj.m) \ fs |-> obj.m[g]])

\* JavaScript truthiness, as tested by `if (x)` and `a || b`
Truthy(value) ==
    CASE value.t = "undef" -> FALSE
      [] value.t = "null" -> FALSE
      [] value.t = "key" -> value.v # 0
      [] value.t = "str" -> value.v # ""
      [] OTHER -> TRUE

\* The property names in the order mapDeep and the store walk them
PropOrder ==
    <<"$and", "$expr", "$in", "$nin", "_id", "a", "b", "c", "cityRef", "n", "name",
      "ownerRef", "tags">>

Operators == {"$and", "$expr", "$in", "$nin"}

\* The marker mapDeep pushes on the stack for an array element
Index == "#"

\* The properties of obj, in PropOrder
PropsOf(obj) == SelectSeq(PropOrder, LAMBDA f : f \in DOMAIN obj.m)

\* stackToKey: the path of a stack, array indexes and operators left out
stackToKey(stack) == SelectSeq(stack, LAMBDA s : s \notin Operators \cup {Index})

RECURSIVE SortedSeq(_)
\* the numbers of S in increasing order
SortedSeq(S) ==
    IF S = {} THEN <<>>
    ELSE LET m == CHOOSE x \in S : \A y \in S : x <= y
         IN <<m>> \o SortedSeq(S \ {m})

SeqRange(s) == {s[i] : i \in 1..Len(s)}

NoError == [kind |-> "none"]

-----------------------------------------------------------------------------
(* The graph *)

KeyField == "_id"

createDefaultConfig ==
    [key |-> KeyField, foreignKeys |-> [p \in {} |-> Null], references |-> {}]

\* buildGraph: a schema is [cols: the declared collections, fks: a set of
\* [col, path, collection (the target), onDelete]]
buildGraph(schema) ==
    [c \in schema.cols |->
        [key |-> KeyField,
         foreignKeys |->
            [p \in {fk.path : fk \in {x \in schema.fks : x.col = c}} |->
                LET fk == CHOOSE x \in schema.fks : x.col = c /\ x.path = p
                IN [collection |-> fk.collection, onDelete |-> fk.onDelete]],
         references |-> {x \in schema.fks : x.collection = c}]]

\* new Collection(rongo, name): the constructor's write to rongo.graph
CollectionCtor(g, name) ==
    IF name \in DOMAIN g THEN g
    ELSE [c \in (DOMAIN g) \cup {name} |-> IF c = name THEN createDefaultConfig ELSE g[c]]

\* Collection.foreignKeys / Collection.key
foreignKeys(g, name) == g[name].foreignKeys

references(g, name) == g[name].references

-----------------------------------------------------------------------------
(* The store *)

\* A stored document is [key |-> n, body |-> Map(...)]; doc[KeyField] is its key
FieldOf(doc, f) == IF f = KeyField THEN Key(doc.key) ELSE Prop(doc.body, f)

\* The store's test of one field condition of a plain query
CondHolds(v, cond) ==
    LET has(x) == v = x \/ (isArray(v) /\ x \in SeqRange(v.s))
    IN CASE cond.t = "map" ->
              /\ ("$in" \in DOMAIN cond.m => \E x \in SeqRange(cond.m["$in"].s) : has(x))
              /\ ("$nin" \in DOMAIN cond.m => \A x \in SeqRange(cond.m["$nin"].s) : ~has(x))
         [] cond.t = "null" -> v \in {Null, Undef}
         [] OTHER -> has(cond)

\* A query the store can execute: $in and $nin hold arrays
RECURSIVE PlainQuery(_)
PlainQuery(q) ==
    /\ isPlainObject(q)
    /\ \A f \in DOMAIN q.m :
        CASE f = "$and" ->
                /\ isArray(q.m[f])
                /\ \A i \in 1..Len(q.m[f].s) : PlainQuery(q.m[f].s[i])
          [] f = "$expr" -> TRUE
          [] OTHER ->
                isPlainObject(q.m[f]) =>
                    \A o \in {"$in", "$nin"} \cap DOMAIN q.m[f].m : isArray(q.m[f].m[o])

RECURSIVE Matches(_, _)
\* The store's test of a document against a plain query ($expr is not interpreted)
Matches(doc, q) ==
    \A f \in DOMAIN q.m :
        CASE f = "$and" -> \A i \in 1..Len(q.m[f].s) : Matches(doc, q.m[f].s[i])
          [] f = "$expr" -> TRUE
          [] OTHER -> CondHolds(FieldOf(doc, f), q.m[f])

\* col.find(query).toArray(): the matching documents' keys, in store order
StoreFind(st, name, q) ==
    SortedSeq({d.key : d \in {x \in st[name] : Matches(x, q)}})

-----------------------------------------------------------------------------
(* The filter resolver: normalizeFilterQuery and Collection.find.          *)
(* Every resolver result is [err, val, graph]: the error thrown (NoError   *)
(* when none), the value returned, and rongo.graph afterwards.             *)

InvalidSelectorError(name, key) ==
    [kind |-> "InvalidSelectorError", collection |-> name, path |-> key]

StoreError == [kind |-> "StoreError"]

\* A resolver step that returned val
Returned(val, g) == [err |-> NoError, val |-> val, graph |-> g]

\* A resolver step that threw err
Thrown(err, g) == [err |-> err, val |-> Undef, graph |-> g]

\* `const x = await r; return K(x)`: a rejection of r propagates
Await(r, K(_)) == IF r.err # NoError THEN r ELSE K(r)

RECURSIVE mapDeepFilter(_, _, _, _, _)
RECURSIVE mapPropsFilter(_, _, _, _, _, _)
RECURSIVE mapItemsFilter(_, _, _, _, _, _)
RECURSIVE customizer(_, _, _, _, _)
RECURSIVE normalizeQuerySelectorList(_, _, _, _, _, _)
RECURSIVE reduceSelectorList(_, _, _, _)
RECURSIVE primaryKeys(_, _, _, _)
RECURSIVE CollectionFind(_, _, _, _)

\* mapDeep over the properties fs of obj (the properties left to walk)
mapPropsFilter(g, st, name, obj, stack, fs) ==
    IF fs = <<>> THEN Returned(Map(EmptyObj), g)
    ELSE Await(mapDeepFilter(g, st, name, obj.m[Head(fs)], Append(stack, Head(fs))),
               LAMBDA r :
                 Await(mapPropsFilter(r.graph, st, name, obj, stack, Tail(fs)),
                       LAMBDA rest :
                         Returned(Assign(rest.val, Head(fs), r.val), rest.graph)))

\* mapDeep over the elements of an array, from element i on
mapItemsFilter(g, st, name, arr, stack, i) ==
    IF i > Len(arr.s) THEN Returned(Arr(<<>>), g)
    ELSE Await(mapDeepFilter(g, st, name, arr.s[i], Append(stack, Index)),
               LAMBDA r :
                 Await(mapItemsFilter(r.graph, st, name, arr, stack, i + 1),
                       LAMBDA rest : Returned(Arr(<<r.val>> \o rest.val.s), rest.graph)))

\* mapDeep's use of the customizer's answer c: a replacement is final, otherwise
\* the node's children are walked
WalkFilter(c, g, st, name, value, stack) ==
    IF c.hit THEN [err |-> c.err, val |-> c.val, graph |-> c.graph]
    ELSE IF isPlainObject(value)
         THEN mapPropsFilter(g, st, name, value, stack, PropsOf(value))
    ELSE IF isArray(value) THEN mapItemsFilter(g, st, name, value, stack, 1)
    ELSE Returned(value, g)

\* mapDeep(value, customizer, stack)
mapDeepFilter(g, st, name, value, stack) ==
    WalkFilter(customizer(g, st, name, value, stack), g, st, name, value, stack)

\* primaryKeys selecting with an empty filter: every document of the collection
primaryKeysOfAll(g, st, foreignCol, query) ==
    Await(CollectionFind(g, st, foreignCol, Map(EmptyObj)),
          LAMBDA r : Returned(Arr([i \in 1..Len(r.val) |-> Key(r.val[i])]), r.graph))

\* foreignCol.find(query).select(foreignCol.key)
primaryKeys(g, st, foreignCol, query) ==
    Await(CollectionFind(g, st, foreignCol, query),
          LAMBDA r : Returned(Arr([i \in 1..Len(r.val) |-> Key(r.val[i])]), r.graph))

\* list.reduce(...) appending the expansion in front of the accumulator
reduceSelectorListReversed(g, st, foreignCol, items) ==
    IF items = <<>> THEN Returned(Arr(<<>>), g)
    ELSE Await(IF isPlainObject(Head(items))
               THEN primaryKeys(g, st, foreignCol, Head(items))
               ELSE Returned(Arr(<<Head(items)>>), g),
               LAMBDA r :
                 Await(reduceSelectorList(r.graph, st, foreignCol, Tail(items)),
                       LAMBDA rest : Returned(Arr(rest.val.s \o r.val.s), rest.graph)))

\* list.reduce(...): literal items are kept, foreign filter queries are replaced
\* by the keys they select
reduceSelectorList(g, st, foreignCol, items) ==
    IF items = <<>> THEN Returned(Arr(<<>>), g)
    ELSE Await(IF isPlainObject(Head(items))
               THEN primaryKeys(g, st, foreignCol, Head(items))
               ELSE Returned(Arr(<<Head(items)>>), g),
               LAMBDA r :
                 Await(reduceSelectorList(r.graph, st, foreignCol, Tail(items)),
                       LAMBDA rest : Returned(Arr(r.val.s \o rest.val.s), rest.graph)))

normalizeQuerySelectorList(g, st, name, key, foreignCol, list) ==
    IF list = Undef THEN Returned(Undef, g)
    ELSE IF isPlainObject(list) THEN primaryKeys(g, st, foreignCol, list)
    ELSE IF isArray(list) THEN reduceSelectorList(g, st, foreignCol, list.s)
    ELSE Thrown(InvalidSelectorError(name, key), g)

\* `if (x) normalized[f] = x`
PutIfTruthy(obj, f, x) == IF Truthy(x) THEN Assign(obj, f, x) ELSE obj

\* The node is one the customizer rewrites
Recognized(value) ==
    /\ isPlainObject(value)
    /\ \/ Truthy(Prop(value, "$expr"))
       \/ Truthy(Prop(value, "$in"))
       \/ Truthy(Prop(value, "$nin"))

\* The customizer's work on the selectors of value, normalized being the
\* normalized rest of the node with its $expr put back
ResolveSelectors(g, st, name, value, key, normalized) ==
    IF key \notin DOMAIN foreignKeys(g, name)
    THEN Returned(PutIfTruthy(PutIfTruthy(normalized, "$in", Prop(value, "$in")),
                              "$nin", Prop(value, "$nin")), g)
    ELSE Await(normalizeQuerySelectorList(
                    CollectionCtor(g, foreignKeys(g, name)[key].collection), st, name, key,
                    foreignKeys(g, name)[key].collection, Prop(value, "$in")),
               LAMBDA in :
                 Await(normalizeQuerySelectorList(
                            in.graph, st, name, key,
                            foreignKeys(g, name)[key].collection, Prop(value, "$nin")),
                       LAMBDA nin :
                         Returned(PutIfTruthy(PutIfTruthy(normalized, "$in", in.val),
                                              "$nin", nin.val), nin.graph)))

\* The customizer of normalizeFilterQuery; hit is FALSE when it returns undefined
customizer(g, st, name, value, stack) ==
    IF ~Recognized(value)
    THEN [hit |-> FALSE, err |-> NoError, val |-> value, graph |-> g]
    ELSE [hit |-> TRUE] @@
         Await(mapDeepFilter(g, st, name, Omit(value, {"$expr", "$in", "$nin"}), stack),
               LAMBDA rest :
                 ResolveSelectors(rest.graph, st, name, value, stackToKey(stack),
                                  PutIfTruthy(rest.val, "$expr", Prop(value, "$expr"))))

normalizeFilterQuery(g, st, name, query) == mapDeepFilter(g, st, name, query, <<>>)

\* Collection.find: val is the sequence of the found documents' keys,
\* normalized the query handed to the store
CollectionFind(g, st, name, query) ==
    Await(normalizeFilterQuery(g, st, name, query),
          LAMBDA n :
            IF ~PlainQuery(n.val) THEN Thrown(StoreError, n.graph)
            ELSE Returned(StoreFind(st, name, n.val), n.graph))

-----------------------------------------------------------------------------
(* The filter specification: Collection.find called on a database of pets, *)
(* owners and cities, Pets.ownerRef referring to Owners and Owners.cityRef *)
(* to Cities.                                                              *)

MaxOwners == 2      \* documents of the Owners collection

FilterSchema ==
    [cols |-> {"Pets", "Owners", "Cities"},
     fks |-> {[col |-> "Pets", path |-> <<"ownerRef">>, collection |-> "Owners",
               onDelete |-> "bypass"],
              [col |-> "Owners", path |-> <<"cityRef">>, collection |-> "Cities",
               onDelete |-> "bypass"]}]

Names == {Str("x"), Str("y")}

OwnerBodies ==
    {Map("name" :> n) : n \in Names}
        \cup {Map("name" :> n @@ "cityRef" :> Key(1)) : n \in Names}

FilterStores ==
    {[c \in FilterSchema.cols |->
        CASE c = "Cities" -> {[key |-> 1, body |-> Map("name" :> Str("x"))],
                              [key |-> 2, body |-> Map("name" :> Str("y"))]}
          [] c = "Owners" -> {[key |-> k, body |-> b[k]] : k \in 1..MaxOwners}
          [] OTHER -> {[key |-> 1, body |-> Map("ownerRef" :> Key(1))],
                       [key |-> 2, body |-> Map("ownerRef" :> Key(2))]}]
     : b \in [1..MaxOwners -> OwnerBodies]}

\* Filter queries on the Owners collection
ForeignFilters ==
    {Map(EmptyObj),
     Map("name" :> Str("x")),
     Map("cityRef" :> Map("$in" :> Map("name" :> Str("x")))),
     Map("cityRef" :> Map("$nin" :> Arr(<<Key(2), Map("name" :> Str("x"))>>))),
     Map("name" :> Map("$in" :> Arr(<<Str("y")>>)))}

\* Values of a $in or $nin selector
Scalars == {Null, Key(0), Str(""), Key(7), Str("x")}

SelectorLists ==
    {Undef} \cup Scalars \cup ForeignFilters
        \cup {Arr(<<>>), Arr(<<Key(2), Key(1)>>)}
        \cup {Arr(<<Key(2), f, Key(7)>>) : f \in ForeignFilters}

SecondSelectors == {Undef, Null, Arr(<<Key(1)>>), Map("name" :> Str("y"))}

ExprValues == {Undef, Key(0), Map("$in" :> Arr(<<Str("$name"), Map("n" :> Key(1))>>))}

\* A node {$in, $nin, $expr, n}, absent members left out
Node(in, nin, expr, n) ==
    LET fs == {f \in {"$in", "$nin", "$expr", "n"} :
                  CASE f = "$in" -> in # Undef
                    [] f = "$nin" -> nin # Undef
                    [] f = "$expr" -> expr # Undef
                    [] OTHER -> n # Undef}
    IN Map([f \in fs |-> CASE f = "$in" -> in
                           [] f = "$nin" -> nin
                           [] f = "$expr" -> expr
                           [] OTHER -> n])

Nodes ==
    {Node(a, b, e, Undef) : a \in SelectorLists, b \in SecondSelectors, e \in ExprValues}
        \cup {Node(b, a, e, Undef) : a \in SelectorLists, b \in SecondSelectors, e \in {Undef}}
        \cup {Node(a, Undef, Undef, Map("$in" :> b)) :
                a \in {Arr(<<Key(1)>>)}, b \in SelectorLists}

\* Filter queries on the Pets collection
PetQueries ==
    {Map("ownerRef" :> n) : n \in Nodes}
        \cup {Map("name" :> n) : n \in Nodes}
        \cup {Map("$and" :> Arr(<<Map("ownerRef" :> Node(a, Undef, Undef, Undef)),
                                  Map("name" :> Str("x"))>>)) : a \in SelectorLists}
        \cup {Node(a, Undef, Undef, Undef) : a \in SelectorLists}

FltIdle == [pc |-> "idle"]

InsIdle == [pc |-> "idle"]

DelIdle == [pc |-> "idle"]

CallIdle == [pc |-> "idle"]

InitFilter ==
    /\ graph = buildGraph(FilterSchema)
    /\ store \in FilterStores
    /\ nextKey = 1
    /\ flt = FltIdle
    /\ ins = InsIdle
    /\ del = DelIdle
    /\ handles = {}
    /\ call = CallIdle

\* Collection.find(query) on collection name. flt records the call: the query
\* given, what normalizeFilterQuery threw or returned, and the keys found. The
\* call reads the store and does not write it, so one call per behaviour, from
\* every database, covers every call
Find(name, query) ==
    /\ flt.pc = "idle"
    /\ \E n \in {normalizeFilterQuery(CollectionCtor(graph, name), store, name, query)} :
        /\ flt' = [pc |-> "done", col |-> name, query |-> query,
                   err |-> n.err, normalized |-> n.val,
                   found |-> IF n.err = NoError /\ PlainQuery(n.val)
                             THEN StoreFind(store, name, n.val) ELSE <<>>]
        /\ graph' = n.graph
    /\ UNCHANGED <<store, nextKey, ins, del, handles, call>>

FindPets == \E q \in PetQueries : Find("Pets", q)

FindOwners == \E q \in ForeignFilters : Find("Owners", q)

NextFilter == FindPets \/ FindOwners

SpecFilter == InitFilter /\ [][NextFilter]_vars

-----------------------------------------------------------------------------
(* Properties of the filter resolver *)

RECURSIVE Sat(_, _, _, _, _)
\* The meaning of an augmented filter query q on collection name, stated on the
\* documents and not through the resolver: doc satisfies q when every field
\* condition holds, a mapping under $in / $nin at a foreign key standing for
\* "refers to a document of the target collection that satisfies the mapping"
Sat(g, st, name, doc, q) ==
    \A f \in DOMAIN q.m :
        CASE f = "$and" -> \A i \in 1..Len(q.m[f].s) : Sat(g, st, name, doc, q.m[f].s[i])
          [] f = "$expr" -> TRUE
          [] OTHER ->
            LET v == FieldOf(doc, f)
                cond == q.m[f]
                has(x) == v = x \/ (isArray(v) /\ x \in SeqRange(v.s))
                target == foreignKeys(g, name)[<<f>>].collection
                refers(m) == \E t \in st[target] :
                                has(Key(t.key)) /\ Sat(g, st, target, t, m)
                among(sel) ==
                    IF isPlainObject(sel) THEN refers(sel)
                    ELSE \E i \in 1..Len(sel.s) :
                            IF isPlainObject(sel.s[i]) THEN refers(sel.s[i])
                            ELSE has(sel.s[i])
            IN CASE cond.t = "map" ->
                      /\ ("$in" \in DOMAIN cond.m => among(cond.m["$in"]))
                      /\ ("$nin" \in DOMAIN cond.m => ~among(cond.m["$nin"]))
                 [] cond.t = "null" -> v \in {Null, Undef}
                 [] OTHER -> has(cond)

\* The nodes of query q of collection name that sit at a foreign-key path, each
\* with the node at the same place of the output out: at q[f], and at
\* q.$and[i][f], for a foreign key f
FkNodes(g, name, q, out) ==
    LET fks == {f \in DOMAIN q.m : <<f>> \in DOMAIN foreignKeys(g, name)}
        top == {[path |-> <<f>>, in |-> q.m[f], out |-> Prop(out, f)] : f \in fks}
        items == IF "$and" \in DOMAIN q.m /\ isArray(q.m["$and"])
                 THEN 1..Len(q.m["$and"].s) ELSE {}
        sub == {[path |-> <<f>>, in |-> q.m["$and"].s[i].m[f],
                 out |-> Prop(Prop(out, "$and").s[i], f)] :
                    <<i, f>> \in {x \in items \X {"ownerRef", "cityRef"} :
                        /\ isPlainObject(q.m["$and"].s[x[1]])
                        /\ x[2] \in DOMAIN q.m["$and"].s[x[1]].m
                        /\ <<x[2]>> \in DOMAIN foreignKeys(g, name)}}
    IN top \cup sub

TargetOf(g, name, path) == foreignKeys(g, name)[path].collection

\* The keys of the documents of collection name that satisfy the filter m
KeysSatisfying(g, st, name, m) ==
    {Key(d.key) : d \in {x \in st[name] : Sat(g, st, name, x, m)}}

\* C6: a mapping under $in or $nin at a foreign-key path is replaced by a list
\* holding exactly the keys of the target collection's documents that match
\* the mapping as a filter query on the target collection, nested foreign
\* filters of the mapping being resolved on the target's own foreign keys.
C6_VirtualJoin ==
    (flt.pc = "done" /\ flt.err = NoError) =>
        \A nd \in FkNodes(graph, flt.col, flt.query, flt.normalized) :
            \A o \in {"$in", "$nin"} :
                isPlainObject(Prop(nd.in, o)) =>
                    /\ isArray(Prop(nd.out, o))
                    /\ SeqRange(Prop(nd.out, o).s) =
                        KeysSatisfying(graph, store, TargetOf(graph, flt.col, nd.path),
                                       Prop(nd.in, o))

\* A find on Pets whose $in at ownerRef is a filter on Owners that itself holds
\* a filter on Cities at cityRef, resolved to some but not all owners
C6_Witness ==
    /\ flt.pc = "done" /\ flt.err = NoError /\ flt.col = "Pets"
    /\ isPlainObject(Prop(Prop(flt.query, "ownerRef"), "$in"))
    /\ isPlainObject(Prop(Prop(Prop(Prop(flt.query, "ownerRef"), "$in"), "cityRef"), "$in"))
    /\ isArray(Prop(Prop(flt.normalized, "ownerRef"), "$in"))
    /\ Len(Prop(Prop(flt.normalized, "ownerRef"), "$in").s) = 1
    /\ Cardinality(store["Owners"]) > 1

\* A $in / $nin value that is present and neither a mapping nor an array
InvalidSelector(v) == v # Undef /\ ~isPlainObject(v) /\ ~isArray(v)

\* C7: a $in or $nin value at a foreign-key path that is present and neither a
\* mapping nor a sequence makes normalizeFilterQuery fail with an
\* InvalidSelectorError naming the collection and the path.
C7_InvalidSelectorFails ==
    flt.pc = "done" =>
        \A nd \in FkNodes(graph, flt.col, flt.query, flt.query) :
            (isPlainObject(nd.in) /\ \E o \in {"$in", "$nin"} : InvalidSelector(Prop(nd.in, o)))
                => flt.err = InvalidSelectorError(flt.col, nd.path)

\* The query holds no node at a foreign-key path
NoFkPath(g, name, q) ==
    /\ FkNodes(g, name, q, q) = {}
    /\ \A f \in DOMAIN q.m : f \notin Operators

\* C8: the parts of a filter query that are not at a foreign-key path come out
\* of normalizeFilterQuery unchanged, $in, $nin and $expr entries included
\* whatever their value, and a $expr value is copied verbatim at any path.
C8_NonForeignUntouched ==
    (flt.pc = "done" /\ flt.err = NoError) =>
        /\ NoFkPath(graph, flt.col, flt.query) => flt.normalized = flt.query
        /\ \A nd \in FkNodes(graph, flt.col, flt.query, flt.normalized) :
              isPlainObject(nd.in) => Prop(nd.out, "$expr") = Prop(nd.in, "$expr")

-----------------------------------------------------------------------------
(* The insertion resolver: normalizeInsertionDoc, insertSafely, the         *)
(* DependencyCollector, Collection.insert / replaceOne / findOneAndReplace. *)
(* A call's context ctx is [graph, store, next, deps, writes, failAt, err]: *)
(* rongo.graph, the database, the store's next identity, the records of the *)
(* call's DependencyCollector, the store writes issued so far, the write    *)
(* the store rejects (0: none) and the error thrown so far.                 *)

\* The store's rejection of the call's w-th write (a ValidationError)
ValidationError(w) == [kind |-> "ValidationError", write |-> w]

NewContext(g, st, next, failAt, delFail) ==
    [graph |-> g, store |-> st, next |-> next, deps |-> <<>>,
     writes |-> 0, failAt |-> failAt, err |-> NoError,
     delFail |-> delFail, report |-> <<>>]

\* `const x = await r; return K(x)`: a rejection of r propagates
AwaitIn(r, K(_)) == IF r.ctx.err # NoError THEN r ELSE K(r)

RECURSIVE mapDeepInsert(_, _, _, _, _)
RECURSIVE mapPropsInsert(_, _, _, _, _, _)
RECURSIVE mapItemsInsert(_, _, _, _, _, _)
RECURSIVE insertionCustomizer(_, _, _, _, _)
RECURSIVE normalizeInsertionDoc(_, _, _, _)
RECURSIVE insertSafely(_, _, _, _)

\* mapDeep over the properties fs of obj (the properties left to walk)
mapPropsInsert(name, obj, stack, ctx, options, fs) ==
    IF fs = <<>> THEN [val |-> Map(EmptyObj), ctx |-> ctx]
    ELSE AwaitIn(mapDeepInsert(name, obj.m[Head(fs)], Append(stack, Head(fs)), ctx, options),
                 LAMBDA r :
                   AwaitIn(mapPropsInsert(name, obj, stack, r.ctx, options, Tail(fs)),
                           LAMBDA rest :
                             [rest EXCEPT !.val = Assign(rest.val, Head(fs), r.val)]))

\* mapDeep over the elements of an array, from element i on
mapItemsInsert(name, arr, stack, ctx, options, i) ==
    IF i > Len(arr.s) THEN [val |-> Arr(<<>>), ctx |-> ctx]
    ELSE AwaitIn(mapDeepInsert(name, arr.s[i], Append(stack, Index), ctx, options),
                 LAMBDA r :
                   AwaitIn(mapItemsInsert(name, arr, stack, r.ctx, options, i + 1),
                           LAMBDA rest : [rest EXCEPT !.val = Arr(<<r.val>> \o rest.val.s)]))

\* mapDeep's use of the customizer's answer c: a replacement is final, otherwise
\* the node's children are walked
WalkInsert(c, name, value, stack, ctx, options) ==
    IF c.hit THEN [val |-> c.val, ctx |-> c.ctx]
    ELSE IF isPlainObject(value)
         THEN mapPropsInsert(name, value, stack, ctx, options, PropsOf(value))
    ELSE IF isArray(value) THEN mapItemsInsert(name, value, stack, ctx, options, 1)
    ELSE [val |-> value, ctx |-> ctx]

\* mapDeep(doc, customizer)
mapDeepInsert(name, value, stack, ctx, options) ==
    WalkInsert(insertionCustomizer(name, value, stack, ctx, options),
               name, value, stack, ctx, options)

\* The customizer inserting the nested document into the visited collection
\* instead of the foreign key's target collection
insertionCustomizerSameCol(name, value, stack, ctx, options) ==
    IF ~isPlainObject(value) THEN [hit |-> FALSE, val |-> value, ctx |-> ctx]
    ELSE IF stackToKey(stack) \notin DOMAIN foreignKeys(ctx.graph, name)
         THEN [hit |-> FALSE, val |-> value, ctx |-> ctx]
    ELSE [hit |-> TRUE] @@ insertSafely(name, value, ctx, options)

\* The customizer taking every nested mapping for an embedded document
insertionCustomizerEveryMapping(name, value, stack, ctx, options) ==
    IF ~isPlainObject(value) \/ stack = <<>>
    THEN [hit |-> FALSE, val |-> value, ctx |-> ctx]
    ELSE [hit |-> TRUE] @@ insertSafely(name, value, ctx, options)

\* The customizer of normalizeInsertionDoc; hit is FALSE when it returns
\* undefined, val is the nested document's primary key
insertionCustomizer(name, value, stack, ctx, options) ==
    IF ~isPlainObject(value) THEN [hit |-> FALSE, val |-> value, ctx |-> ctx]
    ELSE IF stackToKey(stack) \notin DOMAIN foreignKeys(ctx.graph, name)
         THEN [hit |-> FALSE, val |-> value, ctx |-> ctx]
    ELSE [hit |-> TRUE] @@
         insertSafely(foreignKeys(ctx.graph, name)[stackToKey(stack)].collection, value,
                      [ctx EXCEPT !.graph =
                          CollectionCtor(@, foreignKeys(@, name)[stackToKey(stack)].collection)],
                      options)

normalizeInsertionDoc(name, doc, ctx, options) ==
    IF options.baseDocument THEN [val |-> doc, ctx |-> ctx]
    ELSE mapDeepInsert(name, doc, <<>>, ctx, options)

\* col.insertOne(doc): the store rejects the write, or stores doc under a new key
StoreInsert(name, body, ctx) ==
    IF ctx.writes + 1 = ctx.failAt
    THEN [val |-> Undef,
          ctx |-> [ctx EXCEPT !.writes = @ + 1, !.err = ValidationError(ctx.writes + 1)]]
    ELSE [val |-> Key(ctx.next),
          ctx |-> [ctx EXCEPT !.writes = @ + 1, !.next = @ + 1,
                      !.store[name] = @ \cup {[key |-> ctx.next, body |-> body]}]]

\* insertSafely: resolve the document, insert it, record it in the collector;
\* val is the key of the stored document
insertSafely(name, doc, ctx, options) ==
    AwaitIn(normalizeInsertionDoc(name, doc, ctx, options),
            LAMBDA n :
              AwaitIn(StoreInsert(name, n.val, n.ctx),
                      LAMBDA r :
                        [r EXCEPT !.ctx.deps =
                            Append(@, [collection |-> name, key |-> r.val.v])]))

RECURSIVE DependenciesDelete(_)
\* DependencyCollector.delete: delete the recorded documents by key, the most
\* recent first; a deletion the store rejects (the keys delFail) goes into the
\* compensation report and is not thrown
DependenciesDelete(ctx) ==
    IF ctx.deps = <<>> THEN ctx
    ELSE LET d == ctx.deps[Len(ctx.deps)]
         IN DependenciesDelete(
                IF d.key \in ctx.delFail
                THEN [ctx EXCEPT !.deps = SubSeq(@, 1, Len(@) - 1),
                                 !.report = Append(@, d)]
                ELSE [ctx EXCEPT !.deps = SubSeq(@, 1, Len(@) - 1),
                                 !.store[d.collection] = {x \in @ : x.key # d.key}])

CompensationError == [kind |-> "CompensationError"]

\* A catch block that lets the compensation's failure replace the caught error
CatchBlockMasking(ctx) ==
    LET c == DependenciesDelete(ctx)
    IN [c EXCEPT !.err = IF c.report # <<>> THEN CompensationError ELSE ctx.err]

\* `catch (e) { await dependencies.delete(); throw e; }`
CatchBlock(ctx) == [DependenciesDelete(ctx) EXCEPT !.err = ctx.err]

\* A rejection raised inside `try { ... }` runs the catch block only when the
\* rejected promise is awaited inside the block: `return promise` leaves the
\* block before the promise settles
InsertAwaitsInsertSafely == FALSE

ReplaceOneAwaitsReplace == FALSE

FindOneAndReplaceAwaitsReplace == TRUE

\* col.replaceOne / col.findOneAndReplace(query, body): the store rejects the
\* write, or replaces the first document that matches the query
StoreReplace(name, q, body, ctx) ==
    LET w == ctx.writes + 1
        found == StoreFind(ctx.store, name, q)
    IN IF w = ctx.failAt
       THEN [ctx EXCEPT !.writes = w, !.err = ValidationError(w)]
       ELSE IF found = <<>> THEN [ctx EXCEPT !.writes = w]
       ELSE [ctx EXCEPT !.writes = w,
                !.store[name] = {x \in @ : x.key # Head(found)}
                                    \cup {[key |-> Head(found), body |-> body]}]

-----------------------------------------------------------------------------
(* The insertion specification: inserts and replaces on collections A, B   *)
(* and C, A.b referring to B, A.tags.c to C and B.c to C.                   *)

InsertSchema ==
    [cols |-> {"A", "B", "C"},
     fks |-> {[col |-> "A", path |-> <<"b">>, collection |-> "B", onDelete |-> "bypass"],
              [col |-> "A", path |-> <<"tags", "c">>, collection |-> "C",
               onDelete |-> "bypass"],
              [col |-> "B", path |-> <<"c">>, collection |-> "C", onDelete |-> "bypass"]}]

\* A key given by the caller in place of an embedded document
BareKey == Key(9)

CDocs == {Map("n" :> Key(1))}

BDocs ==
    {Map("n" :> Key(2)), Map("c" :> BareKey)}
        \cup {Map("c" :> c @@ "n" :> Key(2)) : c \in CDocs}

ADocs ==
    LET bs == {Undef, BareKey} \cup BDocs
                \cup {Arr(<<b, BareKey>>) : b \in {Map("n" :> Key(2))}}
        ts == {Undef, Map("c" :> BareKey @@ "n" :> Key(1)), Map("n" :> Map("c" :> Key(1)))}
                \cup {Map("c" :> c) : c \in CDocs}
        fs(b, t) == {f \in {"b", "tags", "n"} :
                        (f = "b" => b # Undef) /\ (f = "tags" => t # Undef)}
    IN {Map([f \in fs(b, t) |-> CASE f = "b" -> b [] f = "tags" -> t [] OTHER -> Key(3)])
            : b \in bs, t \in ts}

InsertDocs == [A |-> ADocs, B |-> BDocs, C |-> CDocs]

ReplaceQueries ==
    {Map(KeyField :> Key(1)),
     Map("n" :> Key(5)),
     Map("b" :> Map("$in" :> Map("n" :> Key(2)))),
     Map("b" :> Map("$in" :> Key(7) @@ "$nin" :> Arr(<<>>)))}

InitInsert ==
    /\ graph = buildGraph(InsertSchema)
    /\ store = [c \in InsertSchema.cols |->
                    CASE c = "A" -> {[key |-> 1, body |-> Map("n" :> Key(5))],
                                     [key |-> 2, body |-> Map("b" :> Key(3) @@ "n" :> Key(5))]}
                      [] c = "B" -> {[key |-> 3, body |-> Map("n" :> Key(2))]}
                      [] OTHER -> {}]
    /\ nextKey = 4
    /\ flt = FltIdle
    /\ ins = InsIdle
    /\ del = DelIdle
    /\ handles = {}
    /\ call = CallIdle

\* The state after a call that ends in context fin; recorded is the content of
\* the call's DependencyCollector when the call's work ended. One call is
\* followed per behaviour
Finish(op, name, doc, options, val, recorded, compensated, fin) ==
    \E f \in {fin} :
        /\ ins' = [pc |-> "done", op |-> op, col |-> name, doc |-> doc,
                   options |-> options, err |-> f.err, val |-> val,
                   recorded |-> recorded, compensated |-> compensated,
                   failAt |-> f.failAt, delFail |-> f.delFail,
                   report |-> f.report, before |-> store]
        /\ store' = f.store
        /\ nextKey' = f.next
        /\ graph' = f.graph
        /\ UNCHANGED <<flt, del, handles, call>>

\* Collection.insert(doc, options)
Insert(name, doc, options, failAt, delFail) ==
    /\ ins.pc = "idle"
    /\ \E r \in {insertSafely(name, doc,
                             NewContext(graph, store, nextKey, failAt, delFail), options)} :
        LET caught == r.ctx.err # NoError /\ InsertAwaitsInsertSafely
            fin == IF caught THEN CatchBlock(r.ctx) ELSE r.ctx
        IN Finish("insert", name, doc, options, r.val, r.ctx.deps, caught, fin)

\* Collection.replaceOne and Collection.findOneAndReplace (query, doc): the two
\* differ in whether the store's replace is awaited inside the try block
Replace(op, awaitsReplace, name, query, doc, failAt, delFail) ==
    /\ ins.pc = "idle"
    /\ \E nq \in {normalizeFilterQuery(graph, store, name, query)} :
        LET ctx0 == NewContext(nq.graph, store, nextKey, failAt, delFail)
            options == [baseDocument |-> FALSE]
        IN IF nq.err # NoError
           THEN Finish(op, name, doc, options, Undef, <<>>, FALSE,
                       [ctx0 EXCEPT !.err = nq.err])
           ELSE \E n \in {normalizeInsertionDoc(name, doc, ctx0, options)} :
                IF n.ctx.err # NoError
                THEN Finish(op, name, doc, options, Undef, n.ctx.deps, TRUE,
                            CatchBlock(n.ctx))
                ELSE \E r \in {StoreReplace(name, nq.val, n.val, n.ctx)} :
                     IF r.err # NoError /\ awaitsReplace
                     THEN Finish(op, name, doc, options, Undef, r.deps, TRUE,
                                 CatchBlock(r))
                     ELSE Finish(op, name, doc, options, Undef, r.deps, FALSE, r)

\* The keys of recorded documents whose deletion the store rejects
DelFails == {{}, {4}, {4, 5}}

DoInsert ==
    \E name \in InsertSchema.cols, base \in BOOLEAN, failAt \in 0..MaxWrites :
        \E doc \in InsertDocs[name], delFail \in DelFails :
            Insert(name, doc, [baseDocument |-> base], failAt, delFail)

DoReplaceOne ==
    \E query \in ReplaceQueries, doc \in ADocs, failAt \in 0..MaxWrites :
        \E delFail \in DelFails :
            Replace("replaceOne", ReplaceOneAwaitsReplace, "A", query, doc, failAt, delFail)

DoFindOneAndReplace ==
    \E query \in ReplaceQueries, doc \in ADocs, failAt \in 0..MaxWrites :
        \E delFail \in DelFails :
            Replace("findOneAndReplace", FindOneAndReplaceAwaitsReplace, "A", query, doc,
                    failAt, delFail)

NextInsert == DoInsert \/ DoReplaceOne \/ DoFindOneAndReplace

SpecInsert == InitInsert /\ [][NextInsert]_vars

-----------------------------------------------------------------------------
(* Properties of the insertion resolver *)

\* The documents of the database st, as [collection, key] records
DocsOf(st) ==
    UNION {{[collection |-> c, key |-> x.key] : x \in st[c]} : c \in DOMAIN st}

\* The recorded dependency dep has no document in the database
Deleted(dep) == \A x \in store[dep.collection] : x.key # dep.key

\* C1: when Collection.insert fails after nested inserts succeeded, every
\* document recorded in the call's DependencyCollector is deleted by the time
\* the caller gets the failure, and the failure is the original one (the
\* store rejecting none of the compensation's deletions).
C1_InsertCompensates ==
    (ins.pc = "done" /\ ins.op = "insert" /\ ins.err # NoError /\ ins.delFail = {}) =>
        /\ \A dep \in SeqRange(ins.recorded) : Deleted(dep)
        /\ DocsOf(store) = DocsOf(ins.before)
        /\ ins.err = ValidationError(ins.failAt)

RECURSIVE Resolved(_, _, _, _, _, _, _)
\* stored is the resolved form of the value given at the path stack of a
\* document of collection name: a mapping at a foreign-key path is held as the
\* key of a document of the target collection that is recorded in deps and is
\* itself the resolved form of the mapping; everything else is held as given
Resolved(g, st, deps, name, stored, given, stack) ==
    IF isPlainObject(given) /\ stackToKey(stack) \in DOMAIN foreignKeys(g, name)
    THEN LET target == foreignKeys(g, name)[stackToKey(stack)].collection
         IN /\ stored.t = "key"
            /\ \E t \in st[target] :
                /\ t.key = stored.v
                /\ [collection |-> target, key |-> t.key] \in deps
                /\ Resolved(g, st, deps, target, t.body, given, <<>>)
    ELSE IF isPlainObject(given)
    THEN /\ isPlainObject(stored)
         /\ DOMAIN stored.m = DOMAIN given.m
         /\ \A f \in DOMAIN given.m :
                Resolved(g, st, deps, name, stored.m[f], given.m[f], Append(stack, f))
    ELSE IF isArray(given)
    THEN /\ isArray(stored)
         /\ Len(stored.s) = Len(given.s)
         /\ \A i \in 1..Len(given.s) :
                Resolved(g, st, deps, name, stored.s[i], given.s[i], Append(stack, Index))
    ELSE stored = given

RECURSIVE Embedded(_, _, _, _)
\* The number of mappings at foreign-key paths in the value given at the path
\* stack of a document of collection name, embedded documents' own included
Embedded(g, name, given, stack) ==
    LET Sum(n, count(_)) ==
            LET RECURSIVE upTo(_)
                upTo(i) == IF i = 0 THEN 0 ELSE count(i) + upTo(i - 1)
            IN upTo(n)
        fs == PropsOf(given)
    IN IF isPlainObject(given) /\ stackToKey(stack) \in DOMAIN foreignKeys(g, name)
       THEN 1 + Embedded(g, foreignKeys(g, name)[stackToKey(stack)].collection, given, <<>>)
       ELSE IF isPlainObject(given)
       THEN Sum(Len(fs), LAMBDA i : Embedded(g, name, given.m[fs[i]], Append(stack, fs[i])))
       ELSE IF isArray(given)
       THEN Sum(Len(given.s), LAMBDA i : Embedded(g, name, given.s[i], Append(stack, Index)))
       ELSE 0

\* C9: an insert of a document that embeds sub-documents at foreign-key paths
\* stores every sub-document as a document of its own in the target collection
\* and the top-level document with the sub-document's key in its place, at any
\* depth, and records every document it inserted in the one DependencyCollector.
C9_InsertResolves ==
    (ins.pc = "done" /\ ins.op = "insert" /\ ins.err = NoError
        /\ ~ins.options.baseDocument) =>
        /\ \E d \in store[ins.col] :
            /\ Key(d.key) = ins.val
            /\ Resolved(graph, store, SeqRange(ins.recorded), ins.col, d.body, ins.doc, <<>>)
        /\ DocsOf(store) \ DocsOf(ins.before) = SeqRange(ins.recorded)
        /\ Cardinality(SeqRange(ins.recorded)) =
                1 + Embedded(graph, ins.col, ins.doc, <<>>)

\* An insert into A that succeeded with an embedded B document holding an
\* embedded C document, and another embedded C document
C9_Witness ==
    /\ ins.pc = "done" /\ ins.op = "insert" /\ ins.err = NoError
    /\ ~ins.options.baseDocument /\ ins.col = "A"
    /\ isPlainObject(Prop(Prop(ins.doc, "b"), "c"))
    /\ isPlainObject(Prop(Prop(ins.doc, "tags"), "c"))
    /\ Len(ins.recorded) = 4
    /\ Cardinality(store["C"]) = 2

\* C10: in replaceOne and findOneAndReplace a failure after the
\* DependencyCollector was created, the failure of the store's replace
\* included, runs the compensation before the error reaches the caller: no
\* document inserted as a side effect of the failed replace remains (the
\* store rejecting none of the compensation's deletions).
C10_ReplaceCompensates ==
    (ins.pc = "done" /\ ins.op \in {"replaceOne", "findOneAndReplace"}
        /\ ins.err # NoError /\ ins.delFail = {}) =>
        /\ \A dep \in SeqRange(ins.recorded) : Deleted(dep)
        /\ DocsOf(store) = DocsOf(ins.before)

\* C11: when an insert or replace fails and the compensation could not delete
\* one of the recorded documents, the error the caller gets is the failure
\* that triggered the compensation, not the compensation's.
C11_OriginalErrorSurfaces ==
    (ins.pc = "done" /\ ins.compensated /\ ins.report # <<>>) =>
        ins.err = ValidationError(ins.failAt)

\* A replace whose compensation deleted one recorded document and failed to
\* delete another
C11_Witness ==
    /\ ins.pc = "done"
    /\ ins.op \in {"replaceOne", "findOneAndReplace"}
    /\ ins.compensated
    /\ ins.report # <<>>
    /\ \E dep \in SeqRange(ins.recorded) : dep \notin SeqRange(ins.report) /\ Deleted(dep)
    /\ \E dep \in SeqRange(ins.report) : ~Deleted(dep)
    /\ ins.err = ValidationError(ins.failAt)

-----------------------------------------------------------------------------
(* The cascading delete: Collection.delete plans with propagateDelete, then *)
(* runs the scheduler's tasks, then the base remover. del is the call:      *)
(*   pc         "idle", "plan", "exec", "done" or "failed"                  *)
(*   keys       the keys of the base documents the query selected           *)
(*   before     the database when the call began                            *)
(*   frames     the propagateDelete calls in progress, innermost last, each *)
(*              [col, keys, refs]: the collection, the keys it deletes and  *)
(*              the references to the collection it has still to look at    *)
(*   scheduler  the RemoveScheduler: the tasks pushed so far                *)
(*   deletedKeys the DeletedKeys: collection -> keys planned for deletion   *)
(*   remover    the task propagateDelete returned for the base documents    *)
(*   issued     the tasks the store has applied, in the order issued        *)
(*   failedAt   the position in the run of the task the store rejected      *)
(* A task is [kind, col, path, keys]: "delete" removes the documents of col *)
(* with the given keys; "unset", "nullify" and "pull" update the documents  *)
(* of col whose field at path refers to one of the keys.                    *)

MaxDepth == 6       \* nested propagateDelete calls

ReferentialIntegrityViolation(ref) ==
    [kind |-> "ReferentialIntegrityViolation", collection |-> ref.col, path |-> ref.path]

KeyList(keys) == Arr([i \in 1..Cardinality(keys) |-> Key(SortedSeq(keys)[i])])

\* The documents of col whose foreign key at path refers to one of the keys
Referencing(st, col, path, keys) ==
    {d \in st[col] : Matches(d, Map(path[1] :> Map("$in" :> KeyList(keys))))}

DeleteTask(col, keys) == [kind |-> "delete", col |-> col, path |-> <<>>, keys |-> keys]

UpdateTask(kind, ref, keys) == [kind |-> kind, col |-> ref.col, path |-> ref.path, keys |-> keys]

\* The store's update of one document by a task's field operator
UpdateDoc(d, task) ==
    LET f == task.path[1]
    IN CASE task.kind = "unset" -> [d EXCEPT !.body = Omit(@, {f})]
         [] task.kind = "nullify" -> [d EXCEPT !.body = Assign(@, f, Null)]
         [] OTHER -> [d EXCEPT !.body =
                        Assign(@, f, Arr(SelectSeq(@.m[f].s,
                                                   LAMBDA x : x \notin SeqRange(KeyList(task.keys).s))))]

\* The store rejects a $pull on a field that holds no array
TaskRejected(st, task) ==
    /\ task.kind = "pull"
    /\ \E d \in Referencing(st, task.col, task.path, task.keys) :
            ~isArray(FieldOf(d, task.path[1]))

\* The database after the store has applied the task
ApplyTask(st, task) ==
    IF task.kind = "delete"
    THEN [st EXCEPT ![task.col] = {d \in @ : d.key \notin task.keys}]
    ELSE [st EXCEPT ![task.col] =
            {IF d \in Referencing(st, task.col, task.path, task.keys)
             THEN UpdateDoc(d, task) ELSE d : d \in @}]

\* propagateDelete entered for the documents keys of collection col
Frame(g, col, keys) == [col |-> col, keys |-> keys, refs |-> references(g, col)]

\* ApplyPolicy without the guard of the keys already planned for deletion
ApplyPolicyUnguarded(d, st, g, ref) ==
    LET top == d.frames[Len(d.frames)]
        rest == [d EXCEPT !.frames[Len(d.frames)].refs = @ \ {ref}]
        hit == Referencing(st, ref.col, ref.path, top.keys)
    IN CASE ref.onDelete = "bypass" -> rest
         [] ref.onDelete = "reject" ->
                IF hit # {}
                THEN [d EXCEPT !.pc = "failed", !.err = ReferentialIntegrityViolation(ref)]
                ELSE rest
         [] ref.onDelete = "cascade" ->
                IF hit = {} THEN rest
                ELSE [rest EXCEPT !.frames = Append(@, Frame(g, ref.col, {x.key : x \in hit})),
                                  !.deletedKeys[ref.col] = @ \cup {x.key : x \in hit}]
         [] OTHER ->
                [rest EXCEPT !.scheduler = Append(@, UpdateTask(ref.onDelete, ref, top.keys))]

\* The DeletePolicy of a reference applied while planning, in state d of the
\* call with the reference ref of the innermost frame: the call's next state
ApplyPolicy(d, st, g, ref) ==
    LET top == d.frames[Len(d.frames)]
        rest == [d EXCEPT !.frames[Len(d.frames)].refs = @ \ {ref}]
        hit == Referencing(st, ref.col, ref.path, top.keys)
        new == {x.key : x \in hit} \ d.deletedKeys[ref.col]
    IN CASE ref.onDelete = "bypass" -> rest
         [] ref.onDelete = "reject" ->
                IF hit # {}
                THEN [d EXCEPT !.pc = "failed", !.err = ReferentialIntegrityViolation(ref)]
                ELSE rest
         [] ref.onDelete = "cascade" ->
                IF new = {} THEN rest
                ELSE [rest EXCEPT !.frames = Append(@, Frame(g, ref.col, new)),
                                  !.deletedKeys[ref.col] = @ \cup new]
         [] OTHER ->
                [rest EXCEPT !.scheduler = Append(@, UpdateTask(ref.onDelete, ref, top.keys))]

\* propagateDelete returning: a nested call's remover is pushed on the
\* scheduler, the outermost call's remover is handed to Collection.delete
ReturnRemover(d) ==
    LET top == d.frames[Len(d.frames)]
        popped == [d EXCEPT !.frames = SubSeq(@, 1, Len(@) - 1)]
    IN IF Len(d.frames) = 1
       THEN [popped EXCEPT !.pc = "exec", !.remover = DeleteTask(top.col, top.keys)]
       ELSE [popped EXCEPT !.scheduler = Append(@, DeleteTask(top.col, top.keys))]

\* The base remover run before the scheduler's tasks
RunRemoverFirst(d) == <<d.remover>> \o d.scheduler

\* The base remover run alone
RunRemoverOnly(d) == <<d.remover>>

\* The tasks Collection.delete runs, in order: `for (const task of scheduler)
\* await task(); return remover();`
Run(d) == Append(d.scheduler, d.remover)

\* The tasks run while propagateDelete is still planning
ExecEnabledWhilePlanning(d) == d.pc \in {"plan", "exec"}

\* Collection.delete lets the tasks run once propagateDelete has returned
ExecEnabled(d) == d.pc = "exec"

\* The collections of the delete scenarios: A and B refer to each other with
\* cascade, C refers to A under every policy and to B under three of them
DeleteSchema(pa, pb) ==
    [cols |-> {"A", "B", "C"},
     fks |-> {[col |-> "A", path |-> <<"b">>, collection |-> "B", onDelete |-> "cascade"],
              [col |-> "B", path |-> <<"a">>, collection |-> "A", onDelete |-> "cascade"],
              [col |-> "C", path |-> <<"a">>, collection |-> "A", onDelete |-> pa],
              [col |-> "C", path |-> <<"b">>, collection |-> "B", onDelete |-> pb]}]

DeletePolicy == {"bypass", "reject", "cascade", "unset", "nullify", "pull"}

DeleteSchemas == {DeleteSchema(pa, pb) : pa \in DeletePolicy, pb \in {"bypass", "cascade", "pull"}}

\* A document with key k whose foreign keys hold the given values
RefDoc(k, fields) ==
    [key |-> k,
     body |-> Map([f \in {x \in DOMAIN fields : fields[x] # Undef} |-> fields[f]])]

DeleteStores ==
    {[c \in {"A", "B", "C"} |->
        CASE c = "A" -> {RefDoc(1, [b |-> b1]), RefDoc(2, [b |-> b2])}
          [] c = "B" -> {RefDoc(1, [a |-> a1]), RefDoc(2, [a |-> a2])}
          [] OTHER -> {RefDoc(1, [a |-> ca, b |-> cb])}] :
        b1 \in {Undef, Key(1), Key(2)}, b2 \in {Undef, Key(1)},
        a1 \in {Undef, Key(1), Key(2)}, a2 \in {Undef, Key(2)},
        ca \in {Undef, Key(1), Arr(<<Key(1), Key(2)>>)},
        cb \in {Undef, Key(1), Arr(<<Key(1)>>)}}

InitDelete ==
    /\ graph \in {buildGraph(sch) : sch \in DeleteSchemas}
    /\ store \in DeleteStores
    /\ nextKey = 3
    /\ flt = FltIdle
    /\ ins = InsIdle
    /\ del = DelIdle
    /\ handles = {}
    /\ call = CallIdle

\* Collection.delete up to propagateDelete's lookup of the documents to delete
DeleteStart(name, query, single) ==
    /\ del.pc = "idle"
    /\ \E n \in {normalizeFilterQuery(CollectionCtor(graph, name), store, name, query)} :
        /\ \E found \in {IF n.err = NoError /\ PlainQuery(n.val)
                         THEN StoreFind(store, name, n.val) ELSE <<>>} :
            \E keys \in {IF single /\ found # <<>> THEN {found[1]} ELSE SeqRange(found)} :
                del' = [pc |-> IF n.err = NoError THEN "plan" ELSE "failed",
                        col |-> name, query |-> query, single |-> single,
                        keys |-> keys,
                        frames |-> IF n.err = NoError
                                   THEN <<Frame(n.graph, name, keys)>> ELSE <<>>,
                        scheduler |-> <<>>,
                        deletedKeys |-> [c \in DOMAIN n.graph |->
                                            IF c = name THEN keys ELSE {}],
                        remover |-> DeleteTask(name, {}),
                        issued |-> <<>>, failedAt |-> 0,
                        err |-> n.err, before |-> store]
        /\ graph' = n.graph
    /\ UNCHANGED <<store, nextKey, flt, ins, handles, call>>

\* propagateDelete looks at one more reference of the collection it deletes from
PlanReference ==
    /\ del.pc = "plan"
    /\ Len(del.frames) <= MaxDepth
    /\ \E ref \in del.frames[Len(del.frames)].refs :
            del' = ApplyPolicy(del, store, graph, ref)
    /\ UNCHANGED <<graph, store, nextKey, flt, ins, handles, call>>

\* propagateDelete has looked at every reference and returns its remover
PlanReturn ==
    /\ del.pc = "plan"
    /\ del.frames[Len(del.frames)].refs = {}
    /\ del' = ReturnRemover(del)
    /\ UNCHANGED <<graph, store, nextKey, flt, ins, handles, call>>

\* `await task()` / `return remover()`: the store applies the next task
RunTask ==
    /\ ExecEnabled(del)
    /\ Len(del.issued) < Len(Run(del))
    /\ \E task \in {Run(del)[Len(del.issued) + 1]} :
        /\ ~TaskRejected(store, task)
        /\ store' = ApplyTask(store, task)
        /\ del' = [del EXCEPT !.issued = Append(@, task),
                              !.pc = IF Len(del.issued) + 1 = Len(Run(del))
                                     THEN "done" ELSE @]
    /\ UNCHANGED <<graph, nextKey, flt, ins, handles, call>>

\* The store rejects the next task: the error leaves Collection.delete
TaskFails ==
    /\ ExecEnabled(del)
    /\ Len(del.issued) < Len(Run(del))
    /\ del' = [del EXCEPT !.pc = "failed", !.err = StoreError,
                          !.failedAt = Len(del.issued) + 1]
    /\ UNCHANGED <<graph, store, nextKey, flt, ins, handles, call>>

DeleteQueries ==
    {Map(KeyField :> Key(1)),
     Map(EmptyObj),
     Map("b" :> Map("$in" :> Map("a" :> Key(1))))}

DeleteA ==
    \E q \in DeleteQueries :
        DeleteStart("A", q, q = Map(KeyField :> Key(1)))

DeleteB == DeleteStart("B", Map(KeyField :> Key(1)), TRUE)

NextDelete == DeleteA \/ DeleteB \/ PlanReference \/ PlanReturn \/ RunTask \/ TaskFails

SpecDelete == InitDelete /\ [][NextDelete]_vars

\* The scenarios of the cascade cycle: C refers to B with cascade too, so that
\* its document can be reached from A and from B
InitCycle ==
    /\ graph \in {buildGraph(DeleteSchema(pa, "cascade")) : pa \in {"cascade", "unset"}}
    /\ store \in DeleteStores
    /\ nextKey = 3
    /\ flt = FltIdle
    /\ ins = InsIdle
    /\ del = DelIdle
    /\ handles = {}
    /\ call = CallIdle

\* The request keeps running: a cooperative single thread of control
SpecCycle == InitCycle /\ [][NextDelete]_vars /\ WF_vars(NextDelete)

-----------------------------------------------------------------------------
(* Properties of the cascading delete.                                      *)

\* A document, as the pair of its collection and its key
Refers(st, g, c, k) ==
    UNION {{<<ref.col, d.key>> : d \in Referencing(st, ref.col, ref.path, {k})} :
                ref \in {x \in references(g, c) : x.onDelete = "cascade"}}

CascadeStep(st, g, S) == S \cup UNION {Refers(st, g, x[1], x[2]) : x \in S}

RECURSIVE CascadeClosure(_, _, _)
\* The documents reachable from the documents S through cascade references
CascadeClosure(st, g, S) ==
    IF CascadeStep(st, g, S) = S THEN S ELSE CascadeClosure(st, g, CascadeStep(st, g, S))

\* The documents the call has to delete
Doomed == CascadeClosure(del.before, graph, {<<del.col, k>> : k \in del.keys})

\* A reject reference to one of the documents to delete still has a referent
RejectViolated ==
    \E x \in Doomed :
        \E ref \in {r \in references(graph, x[1]) : r.onDelete = "reject"} :
            Referencing(del.before, ref.col, ref.path, {x[2]}) # {}

RECURSIVE ApplyAll(_, _)
\* The database after the store has applied the tasks in order
ApplyAll(st, tasks) ==
    IF tasks = <<>> THEN st ELSE ApplyAll(ApplyTask(st, Head(tasks)), Tail(tasks))

\* C3: the tasks issued are the scheduler's tasks in the order planning pushed
\* them, then the base remover; a call that completes has issued them all; a
\* task the store rejects is the last one tried; and the database holds the
\* effect of every task issued before, none undone.
C3_ExecuteInOrder ==
    del.pc \in {"exec", "done", "failed"} =>
        /\ Len(del.issued) <= Len(del.scheduler) + 1
        /\ \A i \in 1..Len(del.issued) :
                del.issued[i] = IF i <= Len(del.scheduler) THEN del.scheduler[i] ELSE del.remover
        /\ del.pc = "done" => Len(del.issued) = Len(del.scheduler) + 1
        /\ del.pc = "exec" => Len(del.issued) <= Len(del.scheduler)
        /\ (del.pc = "failed" /\ del.failedAt > 0) => Len(del.issued) = del.failedAt - 1
        /\ store = ApplyAll(del.before, del.issued)

\* The third task fails after two tasks have changed the database
C3_Witness ==
    /\ del.pc = "failed"
    /\ del.failedAt = 3
    /\ Len(del.scheduler) >= 3
    /\ ApplyTask(del.before, del.issued[1]) # del.before
    /\ store # ApplyTask(del.before, del.issued[1])

\* The keys of the documents of collection c that the call removed
Removed(c) == {d.key : d \in del.before[c]} \ {d.key : d \in store[c]}

\* The foreign key f of document r holds the key k
Holds(r, f, k) ==
    \/ FieldOf(r, f) = Key(k)
    \/ isArray(FieldOf(r, f)) /\ Key(k) \in SeqRange(FieldOf(r, f).s)

\* The documents of c that now carry the key of r
Now(c, r) == {d \in store[c] : d.key = r.key}

\* What the policy promises for the document r of c, whose foreign key f held
\* the key k of a removed document
Outcome(policy, c, r, f, k) ==
    CASE policy = "cascade" -> Now(c, r) = {}
      [] policy = "unset" -> \E d \in Now(c, r) : FieldOf(d, f) = Undef
      [] policy = "nullify" -> \E d \in Now(c, r) : FieldOf(d, f) = Null
      [] policy = "pull" -> \E d \in Now(c, r) : isArray(FieldOf(d, f)) /\ ~Holds(d, f, k)
      [] policy = "reject" -> FALSE
      [] OTHER -> r \in store[c]

\* Every referencing document of a removed document has the outcome that
\* promise(policy, c, r, f, k) describes
PolicyOutcomes(promise(_, _, _, _, _)) ==
    \A c \in DOMAIN graph :
        \A p \in DOMAIN foreignKeys(graph, c) :
            \A r \in del.before[c] :
                \A k \in Removed(foreignKeys(graph, c)[p].collection) :
                    Holds(r, p[1], k) =>
                        promise(foreignKeys(graph, c)[p].onDelete, c, r, p[1], k)

\* A call that failed on a reject reference left the referencing documents alone
RejectOutcome ==
    (del.pc = "failed" /\ del.err.kind = "ReferentialIntegrityViolation") =>
        store[del.err.collection] = del.before[del.err.collection]

\* C4 as stated: after a delete call, every document whose foreign key held
\* the key of a removed document has the outcome of that foreign key's policy:
\* deleted (cascade), field absent (unset), field null (nullify), key pulled
\* and document kept (pull), document unchanged (bypass); under reject the
\* call fails and the referencing document is unchanged.
C4_PolicyOutcome ==
    /\ del.pc = "done" => PolicyOutcomes(Outcome)
    /\ del.pc # "idle" => RejectOutcome

\* The document r is not one the call deletes itself
Survives(c, r) == <<c, r.key>> \notin Doomed

\* The promise to a document the call does not delete itself; bypass promises
\* that the foreign key still holds the dangling key
OutcomeOfSurvivor(policy, c, r, f, k) ==
    IF policy = "bypass"
    THEN Survives(c, r) => \E d \in Now(c, r) : FieldOf(d, f) = FieldOf(r, f)
    ELSE policy = "cascade" \/ Survives(c, r) => Outcome(policy, c, r, f, k)

\* C4 amended: the outcomes of unset, nullify, pull and bypass are those of a
\* referencing document that the call does not itself delete, as a base
\* document or through a cascade foreign key; such a document is deleted.
\* Under bypass it is the foreign-key field that is unchanged: the document's
\* other foreign keys follow their own policies.
C4_PolicyOutcomeOfSurvivors ==
    /\ del.pc = "done" =>
            /\ PolicyOutcomes(OutcomeOfSurvivor)
            /\ \A x \in Doomed : x[2] \in Removed(x[1])
    /\ del.pc # "idle" => RejectOutcome

\* A document with two foreign keys: the call pulls the key of one and
\* bypasses the other, and the document is kept
C4_Witness ==
    /\ del.pc = "done"
    /\ graph["C"].foreignKeys[<<"a">>].onDelete = "bypass"
    /\ graph["C"].foreignKeys[<<"b">>].onDelete = "pull"
    /\ \E r \in del.before["C"] :
        /\ \E k \in Removed("A") : Holds(r, "a", k)
        /\ \E k \in Removed("B") : Holds(r, "b", k)
        /\ \E d \in Now("C", r) : d # r /\ FieldOf(d, "a") = FieldOf(r, "a")

\* The positions of the delete tasks in the sequence tasks that name document x
DeletesOf(tasks, x) ==
    {i \in 1..Len(tasks) :
        tasks[i].kind = "delete" /\ tasks[i].col = x[1] /\ x[2] \in tasks[i].keys}

\* A and B refer to each other with cascade
CascadeCycle ==
    /\ \E ref \in references(graph, "A") : ref.col = "B" /\ ref.onDelete = "cascade"
    /\ \E ref \in references(graph, "B") : ref.col = "A" /\ ref.onDelete = "cascade"

\* Every document the call has to delete is named by exactly one delete
\* task of the plan, by exactly one when all are issued, and is then gone;
\* the nesting of propagateDelete stays within the number of documents
OncePerDocument ==
    (del.pc # "idle" /\ del.col = "A" /\ CascadeCycle) =>
        /\ Len(del.frames) <= Cardinality(UNION {{<<c, d.key>> : d \in del.before[c]} :
                                                    c \in DOMAIN del.before})
        /\ \A c \in DOMAIN del.deletedKeys :
                \A k \in del.deletedKeys[c] : <<c, k>> \in Doomed
        /\ del.pc \in {"exec", "done"} =>
                \A x \in Doomed : Cardinality(DeletesOf(Run(del), x)) = 1
        /\ del.pc = "done" =>
                \A x \in Doomed :
                    /\ Cardinality(DeletesOf(del.issued, x)) = 1
                    /\ x[2] \in Removed(x[1])

\* C5: with A and B referring to each other with cascade, a delete seeded on
\* A ends, and every document reachable from the seed through the cascade
\* references is scheduled for deletion once and deleted once, however many
\* paths lead to it.
C5_CycleTerminates ==
    /\ []OncePerDocument
    /\ (del.pc = "plan" /\ del.col = "A" /\ CascadeCycle) ~> (del.pc \in {"done", "failed"})

\* The cascade came back to A, and a document of C was reached from A and from B
C5_Witness ==
    /\ del.pc = "done"
    /\ del.col = "A"
    /\ del.keys = {1}
    /\ <<"A", 2>> \in Doomed
    /\ \A p \in DOMAIN graph["C"].foreignKeys : graph["C"].foreignKeys[p].onDelete = "cascade"
    /\ \E r \in del.before["C"] :
        /\ \E k \in Removed("A") : Holds(r, "a", k)
        /\ \E k \in Removed("B") : Holds(r, "b", k)
        /\ Now("C", r) = {}

-----------------------------------------------------------------------------
(* The shared Graph: Rongo.schema, Rongo.collection and the getters of a    *)
(* Collection handle, interleaved with a filter resolution that is          *)
(* suspended at a store round trip.                                         *)

\* The schemas loaded: Owners is declared by some and not by others
GraphSchemas ==
    {[cols |-> {"Pets", "Owners"},
      fks |-> {[col |-> "Pets", path |-> <<"ownerRef">>, collection |-> "Owners",
                onDelete |-> "bypass"]}],
     [cols |-> {"Pets", "Owners"},
      fks |-> {[col |-> "Pets", path |-> <<"ownerRef">>, collection |-> "Owners",
                onDelete |-> "cascade"],
               [col |-> "Owners", path |-> <<"petRef">>, collection |-> "Pets",
                onDelete |-> "nullify"]}],
     [cols |-> {"Pets"},
      fks |-> {[col |-> "Pets", path |-> <<"ownerRef">>, collection |-> "Ghost",
                onDelete |-> "bypass"]}]}

GraphNames == {"Pets", "Owners", "Ghost"}

\* `this.graph = Object.create(null)`
EmptyGraph == [c \in {} |-> createDefaultConfig]

\* new Rongo(uri, {schema}): the graph is empty, or built from the schema given
InitGraph ==
    /\ graph \in {EmptyGraph} \cup {buildGraph(s) : s \in GraphSchemas}
    /\ store = [c \in GraphNames |-> {}]
    /\ nextKey = 1
    /\ flt = FltIdle
    /\ ins = InsIdle
    /\ del = DelIdle
    /\ handles = {}
    /\ call = CallIdle

\* Rongo.schema(schema)
Schema(schema) ==
    /\ graph' = buildGraph(schema)
    /\ UNCHANGED <<store, nextKey, flt, ins, del, handles, call>>

\* Rongo.collection(name): a new Collection handle
RongoCollection(name) ==
    /\ graph' = CollectionCtor(graph, name)
    /\ handles' = handles \cup {name}
    /\ UNCHANGED <<store, nextKey, flt, ins, del, call>>

TypeError == [kind |-> "TypeError"]

\* The getters of a Collection handle, `this.rongo.graph[this.name].field`:
\* reading a field of undefined throws
Getter(g, name, field) ==
    IF name \in DOMAIN g
    THEN [err |-> NoError, val |-> g[name][field]]
    ELSE [err |-> TypeError, val |-> Undef]

\* One lookup of a call: the handle and the field read, and what was got
Lookup(g, name, field) == [name |-> name, field |-> field, got |-> Getter(g, name, field)]

\* A holder of the handle h reads collection.key, .foreignKeys or .references
ReadConfig(h, field) ==
    /\ call.pc \in {"idle", "read"}
    /\ h \in handles
    /\ call' = [pc |-> "read", reads |-> <<Lookup(graph, h, field)>>]
    /\ UNCHANGED <<graph, store, nextKey, flt, ins, del, handles>>

\* The path of the node that the filter resolution followed here resolves
FollowedPath == <<"ownerRef">>

\* collection.find({ownerRef: {$in: {...}, $nin: {...}}}) on the handle name, up
\* to the store round trip of the $in selector: the customizer looks up
\* collection.foreignKeys, obtains the target's handle and, for primaryKeys,
\* reads foreignCol.key; started is the graph the call has seen so far
FilterStart(name) ==
    /\ call.pc \in {"idle", "read"}
    /\ name \in handles
    /\ \E fks \in {Getter(graph, name, "foreignKeys")} :
        IF fks.err # NoError \/ FollowedPath \notin DOMAIN fks.val
        THEN /\ call' = [pc |-> "done", col |-> name, target |-> name, started |-> graph,
                         err |-> fks.err,
                         reads |-> <<Lookup(graph, name, "foreignKeys")>>]
             /\ UNCHANGED <<graph, handles>>
        ELSE \E target \in {fks.val[FollowedPath].collection} :
                /\ graph' = CollectionCtor(graph, target)
                /\ handles' = handles \cup {target}
                /\ call' = [pc |-> "suspended", col |-> name, target |-> target,
                            started |-> graph', err |-> NoError,
                            reads |-> <<Lookup(graph, name, "foreignKeys"),
                                        Lookup(graph', target, "key")>>]
    /\ UNCHANGED <<store, nextKey, flt, ins, del>>

\* The call resumes with the keys of $in and resolves $nin: primaryKeys reads
\* foreignCol.key again, and foreignCol.find looks up foreignCol.foreignKeys
\* to resolve the nested query
FilterResume ==
    /\ call.pc = "suspended"
    /\ \E k \in {Lookup(graph, call.target, "key")} :
        call' = [call EXCEPT
                    !.pc = "done",
                    !.err = k.got.err,
                    !.reads = IF k.got.err # NoError THEN Append(@, k)
                              ELSE @ \o <<k, Lookup(graph, call.target, "foreignKeys")>>]
    /\ UNCHANGED <<graph, store, nextKey, flt, ins, del, handles>>

NextGraph ==
    \/ \E s \in GraphSchemas : Schema(s)
    \/ \E name \in GraphNames : RongoCollection(name)
    \/ \E h \in GraphNames, field \in {"key", "foreignKeys", "references"} : ReadConfig(h, field)
    \/ \E name \in GraphNames : FilterStart(name)
    \/ FilterResume

SpecGraph == InitGraph /\ [][NextGraph]_vars

\* C12: every step that changes the Graph is a schema load, which replaces
\* the whole Graph; obtaining a handle, by a caller or by a resolver, reading
\* a handle's configuration and resolving a filter leave the Graph as it is.
C12_OnlySchemaWritesGraph ==
    [][graph' # graph => \E s \in GraphSchemas : Schema(s)]_vars

\* C13: every lookup of a filter resolution, those made after the call
\* resumed from a store round trip included, gets what the Graph that was
\* current when the call started holds for that handle and field.
C13_OneSnapshotPerCall ==
    call.pc \in {"suspended", "done"} =>
        \A i \in 1..Len(call.reads) :
            \E want \in {Getter(call.started, call.reads[i].name, call.reads[i].field)} :
                /\ call.reads[i].got.err = want.err
                /\ want.err = NoError => call.reads[i].got.val = want.val

\* C17: every handle created so far can read its configuration: its
\* collection has an entry in the Graph, whatever schema was loaded since.
C17_HandleConfigDefined ==
    /\ \A h \in handles : Getter(graph, h, "key").err = NoError
    /\ call.pc = "read" => call.reads[1].got.err = NoError

-----------------------------------------------------------------------------
(* Sequences under $in / $nin.                                              *)

RECURSIVE Spliced(_, _, _, _)
\* The items of a selector list, each mapping replaced at its position by the
\* keys of the target's documents that satisfy it, in the store's order
Spliced(g, st, target, items) ==
    IF items = <<>> THEN <<>>
    ELSE (IF isPlainObject(Head(items))
          THEN KeyList({k.v : k \in KeysSatisfying(g, st, target, Head(items))}).s
          ELSE <<Head(items)>>)
         \o Spliced(g, st, target, Tail(items))

\* C14: a sequence under $in or $nin at a foreign-key path comes out as a list
\* in which every literal element stands unchanged and every mapping element
\* is replaced, at its position, by the keys of the target's documents that
\* match it: every input literal is in the output, no mapping is, and every
\* other output element is a key returned for one of the mapping elements.
C14_SequenceSpliced ==
    (flt.pc = "done" /\ flt.err = NoError) =>
        \A nd \in FkNodes(graph, flt.col, flt.query, flt.normalized) :
            \A o \in {"$in", "$nin"} :
                isArray(Prop(nd.in, o)) =>
                    /\ isArray(Prop(nd.out, o))
                    /\ Prop(nd.out, o).s =
                         Spliced(graph, store, TargetOf(graph, flt.col, nd.path),
                                 Prop(nd.in, o).s)
                    /\ \A x \in SeqRange(Prop(nd.in, o).s) :
                         ~isPlainObject(x) => x \in SeqRange(Prop(nd.out, o).s)
                    /\ \A x \in SeqRange(Prop(nd.out, o).s) : ~isPlainObject(x)

\* A list with a mapping between two literals, the mapping matching some of
\* the owners and not all of them
C14_Witness ==
    /\ flt.pc = "done" /\ flt.err = NoError /\ flt.col = "Pets"
    /\ isArray(Prop(Prop(flt.query, "ownerRef"), "$in"))
    /\ Len(Prop(Prop(flt.query, "ownerRef"), "$in").s) = 3
    /\ isPlainObject(Prop(Prop(flt.query, "ownerRef"), "$in").s[2])
    /\ Len(Prop(Prop(flt.normalized, "ownerRef"), "$in").s) >= 3
    /\ Prop(Prop(flt.normalized, "ownerRef"), "$in").s[1] = Key(2)
    /\ Cardinality(store["Owners"]) > Len(Prop(Prop(flt.normalized, "ownerRef"), "$in").s) - 2

-----------------------------------------------------------------------------
(* The frame of normalizeInsertionDoc.                                      *)

RECURSIVE Framed(_, _, _, _, _)
\* stored differs from the value given at the path stack of a document of
\* collection name only where a mapping stands at a foreign-key path
Framed(g, name, stored, given, stack) ==
    IF isPlainObject(given) /\ stackToKey(stack) \in DOMAIN foreignKeys(g, name)
    THEN TRUE
    ELSE IF isPlainObject(given)
    THEN /\ isPlainObject(stored)
         /\ DOMAIN stored.m = DOMAIN given.m
         /\ \A f \in DOMAIN given.m :
                Framed(g, name, stored.m[f], given.m[f], Append(stack, f))
    ELSE IF isArray(given)
    THEN /\ isArray(stored)
         /\ Len(stored.s) = Len(given.s)
         /\ \A i \in 1..Len(given.s) :
                Framed(g, name, stored.s[i], given.s[i], Append(stack, Index))
    ELSE stored = given

\* The documents of collection name that the call stored: the one inserted,
\* or the one that replaced the first match of the query
StoredBy(name) ==
    IF ins.op = "insert" THEN {d \in store[name] : Key(d.key) = ins.val}
    ELSE store[name] \ ins.before[name]

\* C15: the document that normalizeInsertionDoc hands to the store differs
\* from the one given only at mappings at foreign-key paths: a bare key at a
\* foreign-key path and every node elsewhere are as given; only mappings at
\* foreign-key paths cause inserts, so a document without any leaves the
\* DependencyCollector as it was.
C15_NormalizeFrame ==
    (ins.pc = "done" /\ ins.err = NoError) =>
        /\ \A d \in StoredBy(ins.col) : Framed(graph, ins.col, d.body, ins.doc, <<>>)
        /\ Cardinality(DocsOf(store) \ DocsOf(ins.before)) =
                (IF ins.op = "insert" THEN 1 ELSE 0)
                + (IF ins.options.baseDocument THEN 0
                   ELSE Embedded(graph, ins.col, ins.doc, <<>>))
        /\ (ins.options.baseDocument \/ Embedded(graph, ins.col, ins.doc, <<>>) = 0) =>
                /\ Len(ins.recorded) = IF ins.op = "insert" THEN 1 ELSE 0
                /\ \A c \in DOMAIN store : c # ins.col => store[c] = ins.before[c]

\* A replace with a bare key at the foreign key b, a mapping at the foreign
\* key tags.c and a mapping elsewhere: one document is inserted, into C
C15_Witness ==
    /\ ins.pc = "done" /\ ins.err = NoError /\ ins.op = "replaceOne"
    /\ Prop(ins.doc, "b") = BareKey
    /\ isPlainObject(Prop(Prop(ins.doc, "tags"), "c"))
    /\ \E d \in StoredBy("A") : Prop(d.body, "b") = BareKey /\ Prop(d.body, "n") = Key(3)
    /\ store["B"] = ins.before["B"]
    /\ Len(ins.recorded) = 1

-----------------------------------------------------------------------------
(* Collection.findOneAndDelete next to the operations of other callers: the *)
(* call reads with col.findOne, then deletes with this.delete(normalized,   *)
(* {single: true}), which looks the document up again.                      *)

MaxOther == 2       \* operations of other callers between the read and the delete

RaceQuery == Map("n" :> Key(5))

\* A document of A whose field n is v
RaceDoc(k, v) == [key |-> k, body |-> Map("n" :> Key(v))]

InitRace ==
    /\ graph = buildGraph([cols |-> {"A"}, fks |-> {}])
    /\ store \in {[A |-> {RaceDoc(k, 5) : k \in ks} \cup {RaceDoc(3, 6)}] : ks \in SUBSET {1, 2}}
    /\ nextKey = 4
    /\ flt = FltIdle
    /\ ins = InsIdle
    /\ del = DelIdle
    /\ handles = {}
    /\ call = CallIdle

\* `const normalized = await normalizeFilterQuery(this, query, options);
\*  const result = await col.findOne(normalized, options)`
FindOneAndDeleteRead ==
    /\ call.pc = "idle"
    /\ \E n \in {normalizeFilterQuery(CollectionCtor(graph, "A"), store, "A", RaceQuery)} :
        /\ \E found \in {StoreFind(store, "A", n.val)} :
            call' = [pc |-> "read", normalized |-> n.val, others |-> 0,
                     result |-> IF found = <<>> THEN {}
                                ELSE {d \in store["A"] : d.key = found[1]},
                     deleted |-> {}]
        /\ graph' = n.graph
    /\ UNCHANGED <<store, nextKey, flt, ins, del, handles>>

\* `await this.delete(normalized, {single: true}); return result`: the planner
\* looks up the first match again; A has no references, so that the base
\* remover is the only task
FindOneAndDeleteDelete ==
    /\ call.pc = "read"
    /\ \E found \in {StoreFind(store, "A", call.normalized)} :
        \E keys \in {IF found = <<>> THEN {} ELSE {found[1]}} :
            /\ store' = ApplyTask(store, DeleteTask("A", keys))
            /\ call' = [call EXCEPT !.pc = "done",
                                    !.deleted = {d \in store["A"] : d.key \in keys}]
    /\ UNCHANGED <<graph, nextKey, flt, ins, del, handles>>

\* Another caller inserts a document between the read and the delete
OtherInsert(v) ==
    /\ call.pc = "read" /\ call.others < MaxOther
    /\ store' = [store EXCEPT !["A"] = @ \cup {RaceDoc(nextKey, v)}]
    /\ nextKey' = nextKey + 1
    /\ call' = [call EXCEPT !.others = @ + 1]
    /\ UNCHANGED <<graph, flt, ins, del, handles>>

\* Another caller updates a document between the read and the delete
OtherUpdate(k, v) ==
    /\ call.pc = "read" /\ call.others < MaxOther
    /\ \E d \in store["A"] : d.key = k /\ d # RaceDoc(k, v)
    /\ store' = [store EXCEPT !["A"] = {IF d.key = k THEN RaceDoc(k, v) ELSE d : d \in @}]
    /\ call' = [call EXCEPT !.others = @ + 1]
    /\ UNCHANGED <<graph, nextKey, flt, ins, del, handles>>

\* Another caller deletes a document between the read and the delete
OtherDelete(k) ==
    /\ call.pc = "read" /\ call.others < MaxOther
    /\ \E d \in store["A"] : d.key = k
    /\ store' = ApplyTask(store, DeleteTask("A", {k}))
    /\ call' = [call EXCEPT !.others = @ + 1]
    /\ UNCHANGED <<graph, nextKey, flt, ins, del, handles>>

NextRace ==
    \/ FindOneAndDeleteRead
    \/ FindOneAndDeleteDelete
    \/ \E v \in {5, 6} : OtherInsert(v)
    \/ \E k \in 1..3, v \in {5, 6} : OtherUpdate(k, v)
    \/ \E k \in 1..3 : OtherDelete(k)

SpecRace == InitRace /\ [][NextRace]_vars

\* C16: the document findOneAndDelete returns is the document it removed, and
\* when it returns null it removed none, whatever other callers did between
\* its read and its delete.
C16_ReturnsWhatItDeletes ==
    call.pc = "done" => call.deleted = call.result

-----------------------------------------------------------------------------
(* Collection.hasAllKeys.                                                   *)

MaxKeys == 3        \* length of the list of keys asked for

\* Collection.count(query): normalizeFilterQuery, then col.countDocuments
count(g, st, name, query) ==
    Await(normalizeFilterQuery(g, st, name, query),
          LAMBDA n : Returned(Len(StoreFind(st, name, n.val)), n.graph))

\* Collection.hasAllKeys(keys):
\* `keys.length === (await this.count({[this.key]: {$in: keys}}))`
hasAllKeys(g, st, name, keys) ==
    Await(count(g, st, name, Map(g[name].key :> Map("$in" :> Arr(keys)))),
          LAMBDA n : Returned(Len(keys) = n.val, n.graph))

\* The lists of keys asked for: every list of up to MaxKeys keys out of three
KeyLists == UNION {[1..n -> {Key(1), Key(2), Key(3)}] : n \in 0..MaxKeys}

InitKeys ==
    /\ graph = buildGraph([cols |-> {"A"}, fks |-> {}])
    /\ store \in {[A |-> {RaceDoc(k, 5) : k \in ks}] : ks \in SUBSET {1, 2, 3}}
    /\ nextKey = 4
    /\ flt = FltIdle
    /\ ins = InsIdle
    /\ del = DelIdle
    /\ handles = {}
    /\ call = CallIdle

\* A.hasAllKeys(keys)
CallHasAllKeys(keys) ==
    /\ call.pc = "idle"
    /\ \E r \in {hasAllKeys(CollectionCtor(graph, "A"), store, "A", keys)} :
        /\ call' = [pc |-> "done", keys |-> keys, err |-> r.err, result |-> r.val]
        /\ graph' = r.graph
    /\ UNCHANGED <<store, nextKey, flt, ins, del, handles>>

NextKeys == \E keys \in KeyLists : CallHasAllKeys(keys)

SpecKeys == InitKeys /\ [][NextKeys]_vars

\* C18: hasAllKeys(keys) is true exactly when every key of the list is the
\* key of a document of the collection, for every list, the empty one and
\* those naming a key more than once included.
C18_HasAllKeys ==
    call.pc = "done" =>
        /\ call.err = NoError
        /\ call.result = (\A i \in 1..Len(call.keys) :
                            \E d \in store["A"] : Key(d.key) = call.keys[i])

-----------------------------------------------------------------------------
(* The schema builders: BsonAny.jsonSchema calls this._jsonSchema, and      *)
(* BsonNumber._jsonSchema calls super.jsonSchema. call.stack holds the      *)
(* methods entered and not yet returned, the innermost last: [method, got], *)
(* got being the value its callee returned, Undef before.                   *)

MaxStack == 6       \* the call stack the engine allows, in frames

\* Builders with a one-line _jsonSchema, and number builders
Builders ==
    {[kind |-> k, type |-> Str(k), xMin |-> Undef, multipleOf |-> Undef, title |-> t] :
        k \in {"regex", "timestamp", "javascript", "binData"}, t \in {Undef, Str("t")}}
    \cup
    {[kind |-> "number", type |-> Str(ty), xMin |-> x, multipleOf |-> m, title |-> t] :
        ty \in {"number", "double", "int", "long", "decimal"},
        x \in {Undef, Key(0)}, m \in {Undef, Key(2)}, t \in {Undef, Str("t")}}

InitJson ==
    /\ graph = EmptyGraph
    /\ store = [c \in {} |-> {}]
    /\ nextKey = 1
    /\ flt = FltIdle
    /\ ins = InsIdle
    /\ del = DelIdle
    /\ handles = {}
    /\ call = CallIdle

\* builder.jsonSchema() is called
StartJsonSchema(builder) ==
    /\ call.pc = "idle"
    /\ call' = [pc |-> "run", builder |-> builder, err |-> NoError, result |-> Undef,
                stack |-> <<[method |-> "jsonSchema", got |-> Undef]>>]
    /\ UNCHANGED <<graph, store, nextKey, flt, ins, del, handles>>

\* The innermost method calls on: jsonSchema calls this._jsonSchema(), the
\* _jsonSchema of a number builder calls super.jsonSchema(); a call beyond
\* the engine's stack throws a RangeError
Invoke ==
    /\ call.pc = "run"
    /\ \E top \in {call.stack[Len(call.stack)]} :
        /\ top.got = Undef
        /\ top.method = "_jsonSchema" => call.builder.kind = "number"
        /\ call' = IF Len(call.stack) = MaxStack
                   THEN [call EXCEPT !.pc = "done", !.err = [kind |-> "RangeError"]]
                   ELSE [call EXCEPT !.stack =
                            Append(@, [method |-> IF top.method = "jsonSchema"
                                                  THEN "_jsonSchema" ELSE "jsonSchema",
                                       got |-> Undef])]
    /\ UNCHANGED <<graph, store, nextKey, flt, ins, del, handles>>

\* The document a method returns: _jsonSchema returns its own fields over
\* those got from super.jsonSchema(); jsonSchema returns title and the fields
\* got from _jsonSchema, undefined ones dropped by JSON.stringify
Returns(builder, top) ==
    LET own == IF top.method = "jsonSchema"
               THEN [title |-> builder.title]
               ELSE [bsonType |-> builder.type, exclusiveMinimum |-> builder.xMin,
                     multipleOf |-> builder.multipleOf]
        base == IF top.got = Undef THEN [f \in {} |-> Undef] ELSE top.got.m
        all == IF top.method = "jsonSchema" THEN base @@ own ELSE own @@ base
    IN Map([f \in {x \in DOMAIN all : top.method = "jsonSchema" => all[x] # Undef} |-> all[f]])

\* The innermost method returns to its caller
Return ==
    /\ call.pc = "run"
    /\ \E top \in {call.stack[Len(call.stack)]} :
        /\ top.got # Undef \/ (top.method = "_jsonSchema" /\ call.builder.kind # "number")
        /\ call' = IF Len(call.stack) = 1
                   THEN [call EXCEPT !.pc = "done", !.stack = <<>>,
                                     !.result = Returns(call.builder, top)]
                   ELSE [call EXCEPT !.stack =
                            [SubSeq(@, 1, Len(@) - 1) EXCEPT
                                ![Len(call.stack) - 1].got = Returns(call.builder, top)]]
    /\ UNCHANGED <<graph, store, nextKey, flt, ins, del, handles>>

NextJson == (\E builder \in Builders : StartJsonSchema(builder)) \/ Invoke \/ Return

SpecJson == InitJson /\ [][NextJson]_vars

\* C19: jsonSchema() of every builder ends by returning a schema document,
\* within the call stack; for a number builder, with or without bounds, the
\* document's bsonType is the number type configured.
C19_JsonSchemaReturns ==
    /\ call.pc = "run" => Len(call.stack) <= 2
    /\ call.pc = "done" =>
            /\ call.err = NoError
            /\ isPlainObject(call.result)
            /\ Prop(call.result, "bsonType") = call.builder.type

====
